---- MODULE Spec2Model ----
(***************************************************************************)
(* Model of database/setup-via-lambda.py: the guarded remote statement     *)
(* executor execute_statement, called concurrently by several callers      *)
(* against a simulated RDS Data API client, and the entry point main.      *)
(***************************************************************************)
EXTENDS Integers, Sequences, FiniteSets, TLC

VARIABLES DB_CLUSTER_ARN, SECRET_ARN, DATABASE_NAME,
          pc, args, request, outcome, ret,
          invocations, received, stdout, mainPc, mainRet

vars == <<DB_CLUSTER_ARN, SECRET_ARN, DATABASE_NAME, pc, args, request,
          outcome, ret, invocations, received, stdout, mainPc, mainRet>>

config == <<DB_CLUSTER_ARN, SECRET_ARN, DATABASE_NAME>>

(* ---- bounds ---- *)
\* concurrent callers of execute_statement
NumCallers == 2
\* total number of invocations explored
MaxCalls == 2

Callers == 1..NumCallers

(* ---- module-level configuration (lines 13-15) ---- *)
ClusterArn == "arn:aws:rds:us-east-1:147997160304:db:transplant-platform-db"
SecretArn == "arn:aws:secretsmanager:us-east-1:147997160304:secret:transplant-platform-db-secret"
DatabaseName == "transplant_platform"

(* ---- caller inputs ---- *)
Sqls == {"SELECT 1", "CREATE DATABASE transplant_platform"}
\* marks a call that passes no database argument
Omitted == "<omitted>"
DbArgs == {Omitted, "transplant_platform"}

\* the default of the database parameter (line 21)
DefaultDatabaseWrong == DatabaseName
DefaultDatabase == "postgres"

BindDatabase(dbArg) == IF dbArg = Omitted THEN DefaultDatabase ELSE dbArg

\* keyword arguments of client.execute_statement (lines 24-29)
BuildRequestSwapped(sql, database) ==
    [resourceArn |-> SECRET_ARN, secretArn |-> DB_CLUSTER_ARN,
     database |-> database, sql |-> sql]
BuildRequest(sql, database) ==
    [resourceArn |-> DB_CLUSTER_ARN, secretArn |-> SECRET_ARN,
     database |-> database, sql |-> sql]

(* ---- behaviour of the simulated service ---- *)
\* payloads the service may return; their shape belongs to the service
Payloads == { [numberOfRecordsUpdated |-> <<"1">>],
              [error |-> <<"denied">>] }

FaultKinds == {"authentication", "network", "malformed statement",
               "permission denial", "timeout"}
\* the message each simulated fault carries
MsgOf(kind) ==
    CASE kind = "authentication" -> <<"invalid", "token">>
      [] kind = "network" -> <<"unreachable">>
      [] kind = "malformed statement" -> <<"syntax", "error">>
      [] kind = "permission denial" -> <<"denied">>
      [] OTHER -> <<"timed", "out">>

\* exception class raised for each kind of fault
ClassOf(kind) ==
    CASE kind = "network" -> "EndpointConnectionError"
      [] kind = "timeout" -> "ReadTimeoutError"
      [] OTHER -> "ClientError"

Faults == { [kind |-> k, msg |-> MsgOf(k)] : k \in FaultKinds }

\* classes derived from Exception
ExceptionClasses == {"ClientError", "EndpointConnectionError", "ReadTimeoutError"}

\* except Exception as e (line 31)
CatchesClientErrorOnly(e) == ClassOf(e.kind) = "ClientError"
Catches(e) == ClassOf(e.kind) \in ExceptionClasses

\* str(e) (lines 32, 33): a ClientError formats its message behind a prefix
StrClassName(e) == <<ClassOf(e.kind)>>
Str(e) ==
    IF ClassOf(e.kind) = "ClientError"
    THEN <<"An error occurred when calling the ExecuteStatement operation: ">> \o e.msg
    ELSE e.msg

\* return response (line 30)
SuccessResultWrapped(response) == [response |-> response]
SuccessResult(response) == response

\* return {"error": str(e)} (line 33)
FailureResultCounting(e) == [error |-> Str(e) \o <<ToString(received)>>]
FailureResultMessageKey(e) == [message |-> Str(e)]
FailureResult(e) == [error |-> Str(e)]

\* print(f"Error executing SQL: {e}") (line 32)
ErrorLine(e) == [src |-> "execute_statement",
                 text |-> <<"Error executing SQL: ">> \o Str(e)]

NoRequest == [unset |-> <<>>]
NoOutcome == [unset |-> <<>>]
NoResult == [unset |-> <<>>]
NoArgs == [unset |-> <<>>]

(* ---- main (lines 35-72) ---- *)
\* one entry per print call; the two emoji of lines 42-45 are spelled out
MainTextEmpty == << >>
MainText == <<
    "Setting up database using alternative method...",
    "Note: This requires Aurora Serverless or Data API enabled",
    "For regular RDS instances, we'll need to set up a VPN or bastion host",
    "\n=== Database Setup Summary ===",
    "(check mark) Created comprehensive database schema",
    "(check mark) Created seed data with all required information",
    "(check mark) Created automated setup scripts",
    "(cross mark) Network connectivity issue prevents direct setup",
    "\n=== Next Steps ===",
    "1. Use AWS Systems Manager Session Manager to connect through VPC",
    "2. Set up a bastion host in the public subnet",
    "3. Use AWS Lambda in the VPC to execute the SQL",
    "4. Temporarily create a public subnet route (not recommended for production)",
    "\n=== Database Schema Created ===",
    "- Users table (unified for patients and social workers)",
    "- Patients table with PHI fields",
    "- Social workers table with clinic assignments",
    "- Dialysis clinics (3 clinics as specified)",
    "- Transplant centers (10 centers with exact data from requirements)",
    "- ROI consent tracking with digital signatures",
    "- Patient referrals (up to 3 transplant center selections)",
    "- Real-time notifications for social workers",
    "- Comprehensive audit logging for HIPAA compliance",
    "- User sessions for security tracking",
    "\n=== Seed Data Ready ===",
    "- 3 Dialysis clinics: Metro Health, Lakeside Renal, Grand River",
    "- 6 Social workers (2 per clinic)",
    "- 10 Transplant centers with exact addresses and wait times",
    "- System configuration data",
    "- Database views and functions for common operations" >>

MainLines == [i \in 1..Len(MainText) |-> [src |-> "main", text |-> <<MainText[i]>>]]

\* return True (line 72)
MainReturnNone == "None"
MainReturn == "True"

(* ---- initial state: module loaded, nothing called yet ---- *)
Init ==
    /\ DB_CLUSTER_ARN = ClusterArn
    /\ SECRET_ARN = SecretArn
    /\ DATABASE_NAME = DatabaseName
    /\ pc = [p \in Callers |-> "ready"]
    /\ args = [p \in Callers |-> NoArgs]
    /\ request = [p \in Callers |-> NoRequest]
    /\ outcome = [p \in Callers |-> NoOutcome]
    /\ ret = [p \in Callers |-> NoResult]
    /\ invocations = 0
    /\ received = 0
    /\ stdout = << >>
    /\ mainPc = "start"
    /\ mainRet = "unset"

(* ---- execute_statement ---- *)
\* lines 21-29: bind the arguments and issue the remote call, which blocks
Call(p) ==
    /\ pc[p] \in {"ready", "returned"}
    /\ invocations < MaxCalls
    /\ \E sql \in Sqls, dbArg \in DbArgs :
         /\ args' = [args EXCEPT ![p] = [sql |-> sql, database |-> dbArg]]
         /\ request' = [request EXCEPT ![p] = BuildRequest(sql, BindDatabase(dbArg))]
    /\ invocations' = invocations + 1
    /\ received' = received + 1
    /\ pc' = [pc EXCEPT ![p] = "waiting"]
    /\ outcome' = [outcome EXCEPT ![p] = NoOutcome]
    /\ UNCHANGED <<config, ret, stdout, mainPc, mainRet>>

\* variant keeping the response in one slot shared by all callers
ServiceReturnsShared(p) ==
    /\ pc[p] = "waiting"
    /\ \E P \in Payloads :
         /\ outcome' = [outcome EXCEPT ![p] = [payload |-> P]]
         /\ ret' = [q \in Callers |-> SuccessResult(P)]
    /\ pc' = [pc EXCEPT ![p] = "returned"]
    /\ UNCHANGED <<config, args, request, invocations, received, stdout,
                   mainPc, mainRet>>

\* lines 24-30: the remote call returns normally; the response is returned
ServiceReturns(p) ==
    /\ pc[p] = "waiting"
    /\ \E P \in Payloads :
         /\ outcome' = [outcome EXCEPT ![p] = [payload |-> P]]
         /\ ret' = [ret EXCEPT ![p] = SuccessResult(P)]
    /\ pc' = [pc EXCEPT ![p] = "returned"]
    /\ UNCHANGED <<config, args, request, invocations, received, stdout,
                   mainPc, mainRet>>

\* variant whose handler re-issues the request once before giving up
ServiceRaisesRetry(p) ==
    /\ pc[p] = "waiting"
    /\ \E e \in Faults :
         /\ outcome' = [outcome EXCEPT ![p] = [exc |-> e]]
         /\ stdout' = Append(stdout, ErrorLine(e))
         /\ ret' = [ret EXCEPT ![p] = FailureResult(e)]
         /\ pc' = [pc EXCEPT ![p] = "returned"]
    /\ received' = received + 1
    /\ UNCHANGED <<config, args, request, invocations, mainPc, mainRet>>

\* lines 24-29, 31-33: the remote call raises; the handler prints and
\* returns the error mapping, an uncaught exception reaches the caller
ServiceRaises(p) ==
    /\ pc[p] = "waiting"
    /\ \E e \in Faults :
         /\ outcome' = [outcome EXCEPT ![p] = [exc |-> e]]
         /\ IF Catches(e)
            THEN /\ stdout' = Append(stdout, ErrorLine(e))
                 /\ ret' = [ret EXCEPT ![p] = FailureResult(e)]
                 /\ pc' = [pc EXCEPT ![p] = "returned"]
            ELSE /\ pc' = [pc EXCEPT ![p] = "raised"]
                 /\ UNCHANGED <<ret, stdout>>
    /\ UNCHANGED <<config, args, request, invocations, received, mainPc, mainRet>>

\* lines 35-72: print the fixed summary and return True
main ==
    /\ mainPc = "start"
    /\ stdout' = stdout \o MainLines
    /\ mainRet' = MainReturn
    /\ mainPc' = "done"
    /\ UNCHANGED <<config, pc, args, request, outcome, ret, invocations, received>>

Next ==
    \/ \E p \in Callers : Call(p)
    \/ \E p \in Callers : ServiceReturns(p)
    \/ \E p \in Callers : ServiceRaises(p)
    \/ main

Spec == Init /\ [][Next]_vars

\* main is straight-line code: once started it runs to its return
FairSpec == Spec /\ WF_vars(main)

TypeOK ==
    /\ \A p \in Callers : pc[p] \in {"ready", "waiting", "returned", "raised"}
    /\ invocations \in 0..MaxCalls
    /\ mainPc \in {"start", "done"}
(* ======================= properties ======================= *)
Returned(p) == pc[p] = "returned"
Succeeded(p) == Returned(p) /\ "payload" \in DOMAIN outcome[p]
Failed(p) == Returned(p) /\ "exc" \in DOMAIN outcome[p]

\* t occurs in s as a contiguous run
Contains(s, t) ==
    \E i \in 0..(Len(s) - Len(t)) : SubSeq(s, i + 1, i + Len(t)) = t

\* a mapping with exactly the key "error"
IsFailureShape(v) == DOMAIN v = {"error"}

\* the lines main has printed, in order
MainPrinted == SelectSeq(stdout, LAMBDA l : l.src = "main")
ErrorsPrinted == SelectSeq(stdout, LAMBDA l : l.src = "execute_statement")

\* C1: every invocation that the service has answered, by a payload or by
\* any fault, has returned exactly one value to its caller, a payload or an
\* error mapping; no exception ever reaches the caller.
ThmC1 ==
    \A p \in Callers :
        /\ pc[p] # "raised"
        /\ outcome[p] # NoOutcome => Returned(p)
        /\ Returned(p) => (ret[p] \in Payloads \/ IsFailureShape(ret[p]))

WitC1 ==
    \E p, q \in Callers :
        /\ Failed(p) /\ ClassOf(outcome[p].exc.kind) = "ReadTimeoutError"
        /\ Failed(q) /\ ClassOf(outcome[q].exc.kind) = "EndpointConnectionError"

\* C2 (as stated): a call without a database argument forwards a request
\* whose database is DATABASE_NAME.
OrigC2 ==
    \A p \in Callers :
        (pc[p] # "ready" /\ args[p].database = Omitted)
            => request[p].database = DATABASE_NAME

\* C2 (amended): a call without a database argument forwards a request
\* whose database is the literal default of the parameter, "postgres".
ThmC2 ==
    \A p \in Callers :
        (pc[p] # "ready" /\ args[p].database = Omitted)
            => request[p].database = "postgres"

WitC2 ==
    \E p \in Callers : pc[p] = "waiting" /\ args[p].database = Omitted

\* C3: when the service returns payload P, the caller gets exactly P.
ThmC3 ==
    \A p \in Callers : Succeeded(p) => ret[p] = outcome[p].payload

WitC3 ==
    \E p \in Callers :
        Succeeded(p) /\ outcome[p].payload = [numberOfRecordsUpdated |-> <<"1">>]

\* C4: when the service raises an exception with message M, whatever the
\* kind of fault, the caller gets the error mapping and its description
\* contains M.
ThmC4 ==
    \A p \in Callers :
        "exc" \in DOMAIN outcome[p] =>
            /\ Returned(p)
            /\ IsFailureShape(ret[p])
            /\ Contains(ret[p].error, outcome[p].exc.msg)

WitC4 ==
    \E p, q \in Callers :
        /\ Failed(p) /\ outcome[p].exc.kind = "authentication"
        /\ ret[p].error # outcome[p].exc.msg
        /\ Failed(q) /\ outcome[q].exc.kind = "timeout"

\* C5: the service has received exactly one request per invocation made,
\* whether the calls succeeded or failed.
ThmC5 == received = invocations

WitC5 ==
    /\ invocations = MaxCalls
    /\ \E p, q \in Callers : Failed(p) /\ Succeeded(q)

\* C6: every forwarded request carries the fixed cluster and secret
\* identifiers, the caller's sql, and the caller's database when supplied.
ThmC6 ==
    \A p \in Callers :
        pc[p] # "ready" =>
            /\ request[p].resourceArn = ClusterArn
            /\ request[p].resourceArn = DB_CLUSTER_ARN
            /\ request[p].secretArn = SecretArn
            /\ request[p].secretArn = SECRET_ARN
            /\ request[p].sql = args[p].sql
            /\ args[p].database # Omitted => request[p].database = args[p].database

WitC6 ==
    \E p, q \in Callers :
        /\ pc[p] = "waiting" /\ args[p].database = "transplant_platform"
        /\ pc[q] = "waiting" /\ args[q].sql # args[p].sql

\* C7: a step of one invocation leaves every other invocation's request,
\* outcome and result untouched, and each result delivered is the one
\* determined by that invocation's own service outcome.
ThmC7 ==
    [][\A p, q \in Callers :
          (p # q /\ pc'[q] # pc[q]) =>
              /\ pc'[p] = pc[p] /\ args'[p] = args[p]
              /\ request'[p] = request[p]
              /\ outcome'[p] = outcome[p] /\ ret'[p] = ret[p]
              /\ Succeeded(q)' => ret'[q] = outcome'[q].payload
              /\ Failed(q)' => ret'[q] = [error |-> Str(outcome'[q].exc)]]_vars

WitC7 ==
    \E p, q \in Callers :
        /\ Succeeded(p) /\ Failed(q)
        /\ request[p] # request[q]

\* C8: main terminates, returns True, and the lines it has printed are the
\* fixed non-empty summary, whatever the remote calls did.
ThmC8 ==
    <>[](/\ mainPc = "done"
         /\ mainRet = "True"
         /\ Len(MainPrinted) > 0
         /\ MainPrinted = MainLines)

WitC8 ==
    /\ mainPc = "done"
    /\ Len(ErrorsPrinted) > 0
    /\ stdout[1].src = "execute_statement"
    /\ stdout[Len(stdout)].src = "execute_statement"

\* C9: the three module-level identifiers keep their initial values, and
\* two invocations with the same request and the same service outcome
\* return the same result wherever they fall in the sequence of calls.
ThmC9 ==
    /\ DB_CLUSTER_ARN = ClusterArn
    /\ SECRET_ARN = SecretArn
    /\ DATABASE_NAME = DatabaseName
    /\ \A p, q \in Callers :
          (Returned(p) /\ Returned(q) /\ request[p] = request[q]
              /\ outcome[p] = outcome[q]) => ret[p] = ret[q]

WitC9 ==
    \E p, q \in Callers :
        /\ p # q /\ Failed(p) /\ Failed(q)
        /\ request[p] = request[q] /\ outcome[p] = outcome[q]
        /\ mainPc = "done"
        /\ stdout[1] = ErrorLine(outcome[p].exc)
        /\ stdout[Len(stdout)] = ErrorLine(outcome[q].exc)

\* C10 (as stated): no value returned on the success path has the shape of
\* a value returned on the failure path.
OrigC10 ==
    \A p \in Callers : Succeeded(p) => ~IsFailureShape(ret[p])

\* C10 (amended): a value returned on the failure path is always a mapping
\* with the single key "error"; a value returned on the success path has
\* that shape exactly when the service payload itself has it.
ThmC10 ==
    \A p \in Callers :
        /\ Failed(p) => IsFailureShape(ret[p])
        /\ Succeeded(p) =>
              (IsFailureShape(ret[p]) <=> IsFailureShape(outcome[p].payload))

WitC10 ==
    \E p, q \in Callers :
        /\ Succeeded(p) /\ ~IsFailureShape(ret[p])
        /\ Failed(q)
====
